---- MODULE Spec2Model ----
(***************************************************************************)
(* The Android event queue and android_select of src/src/android.c: the    *)
(* queue filled by android_write_event from any thread, drained by the     *)
(* Emacs thread with android_next_event, and android_select, which runs    *)
(* pselect in the select thread and waits for events at the same time.     *)
(*                                                                         *)
(* A step is what a thread does between two points where another thread    *)
(* can see or change what it works on: a section under event_queue.mutex   *)
(* is one step, entered when the mutex is free.  pthread_cond_wait returns *)
(* only after pthread_cond_signal; a signal is pending from pthread_kill   *)
(* until the select thread takes it.                                       *)
(***************************************************************************)
EXTENDS Integers, Sequences, FiniteSets, TLC

(* ------------------------------ bounds --------------------------------- *)

\* Stands for the 65535 of ANDROID_MAX_ASSET_FD (android.c:56), scaled
\* down: android_table has this many entries.
ANDROID_MAX_ASSET_FD == 3

\* Stands for the 65535 of MAX_HANDLE and USHRT_MAX (android.c:1143,
\* 1162), scaled down: android_handles has this many entries and an
\* android_handle holds 0 .. MAX_HANDLE.
MAX_HANDLE == 4

\* Stands for the 2^32 values of an int, scaled down.
IntModulus == 8

\* setEmacsParams is followed until it has initialised this many times.
MaxInits == 2

\* Stands for the 1024 of android_write_event (android.c:389), scaled down.
QueueLimit == 1

\* android_write_event calls made, by all producer threads together.
MaxEvents == 3

\* Removals from an empty queue that a build without assertions survives.
MaxUnderflow == 1

(* ------------------------------ threads -------------------------------- *)

Main == "emacs"
Sel == "select"
Producers == {"ui1", "ui2"}
Threads == {Main, Sel} \cup Producers
None == "none"

\* Values pselect returns by itself: error, timeout, ready descriptors.
PselectResults == {-1, 0, 1}

\* The pselect argument sets a caller passes (nfds, fd sets, timeout, mask).
SelectArgs == {"argsA", "argsB"}

\* The content of the list head's own event field, which is no event.
SentinelEvent == <<None, 0>>

VARIABLES
  events,                     \* event_queue.events: containers, events.next first
  num_events,                 \* event_queue.num_events
  mutex,                      \* owner of event_queue.mutex
  select_mutex,               \* owner of event_queue.select_mutex
  pc,                         \* where each thread is
  sigusr1,                    \* SIGUSR1 pending for the select thread
  sigusr2,                    \* SIGUSR2 pending for the select thread
  android_pselect_args,       \* android_pselect_nfds .. android_pselect_sigset
  android_pselect_rc,
  android_pselect_completed,
  android_pselect_sem,
  rc,                         \* rc of android_run_select_thread
  call_args,                  \* the arguments pselect was entered with
  sel_args,                   \* the arguments android_select was called with
  returned,                   \* what the call the Emacs thread just made returned
  written,                    \* android_write_event calls made, per producer
  aborted,                    \* the process was ended by abort
  init_failed,                \* the step of android_init_events that failed
  emacs_initialized,          \* the counter setEmacsParams decrements
  params_pc,                  \* where each caller of setEmacsParams is
  init_runs,                  \* times setEmacsParams went on to initialise
  android_handles,            \* android_handles[i].handle is not NULL
  max_handle,
  handle_ret,                 \* what android_alloc_id returned last, -1: no call
  handle_overrun,             \* android_handles was written beyond its end
  free_at_alloc,              \* history: a slot was free when that call began
  android_table,              \* android_table[fd].flags has the valid bit
  fd_open,                    \* what each descriptor of the process is open as
  closing,                    \* the descriptor android_close is about to close
  assert_failed,              \* the assertion of android_open failed
  fstat_res,                  \* history: how android_fstat answered last
  \* history, read by no action
  inserted,                   \* events in the order they were linked
  delivered,                  \* events in the order android_next_event returned them
  wait_current,               \* sigwait returned for the SIGUSR2 sent last
  res_current,                \* pselect returned in the call started for it
  interrupted,                \* pselect returned because SIGUSR1 was handled
  stored,                     \* stores to android_pselect_rc since that SIGUSR2
  usr1_late,                  \* the pending SIGUSR1 was sent after that pselect
  woken_by,                   \* who signalled read_var for the Emacs thread
  flight_event                \* an event was linked with pselect in flight

vars == <<events, num_events, mutex, select_mutex, pc, sigusr1, sigusr2,
          android_pselect_args, android_pselect_rc, android_pselect_completed,
          android_pselect_sem, rc, call_args, sel_args, returned, written,
          aborted, inserted, delivered, wait_current, res_current, interrupted,
          stored, usr1_late, woken_by, flight_event, init_failed,
          emacs_initialized, params_pc, init_runs, android_handles,
          max_handle, handle_ret, handle_overrun, free_at_alloc,
          android_table, fd_open, closing, assert_failed, fstat_res>>

queueVars == <<events, num_events, inserted, delivered>>
selectVars == <<android_pselect_args, android_pselect_rc,
                android_pselect_completed, android_pselect_sem, rc, call_args,
                select_mutex>>
signalVars == <<sigusr1, sigusr2, usr1_late>>
cycleVars == <<wait_current, res_current, interrupted, stored>>
wakeVars == <<woken_by, flight_event>>
paramsVars == <<emacs_initialized, params_pc, init_runs>>

\* What the event queue and android_select do not touch.
handleVars == <<android_handles, max_handle, handle_ret, handle_overrun,
                free_at_alloc>>
assetVars == <<android_table, fd_open, closing, assert_failed, fstat_res>>
restVars == <<paramsVars, handleVars, assetVars>>

\* The state of the event queue, android_select and the select thread.
eventVars == <<events, num_events, mutex, select_mutex, pc, sigusr1, sigusr2,
               android_pselect_args, android_pselect_rc,
               android_pselect_completed, android_pselect_sem, rc, call_args,
               sel_args, returned, written, aborted, inserted, delivered,
               wait_current, res_current, interrupted, stored, usr1_late,
               woken_by, flight_event, init_failed>>

\* Nothing has returned to the Emacs thread's caller.
NoReturn == [fn |-> None]

(* --------------------------- initial state ----------------------------- *)

\* The steps of android_init_events that can fail: the two mutexes, the two
\* condition variables, the semaphore, the SIGUSR1 handler, the thread.
InitSteps == {"mutex", "select_mutex", "write_var", "read_var", "sem_init",
              "sigaction", "pthread_create"}

\* What android_init_events leaves, whether or not a step failed: the list
\* is empty, the semaphore is 0, the select thread is to wait for SIGUSR2.
Constructed ==
  /\ events = <<>>
  /\ num_events = 0
  /\ mutex = None
  /\ select_mutex = None
  /\ pc = [t \in Threads |-> IF t = Sel THEN "sigwait" ELSE "idle"]
  /\ sigusr1 = FALSE
  /\ sigusr2 = FALSE
  /\ android_pselect_args = None
  /\ android_pselect_rc = 0
  /\ android_pselect_completed = FALSE
  /\ android_pselect_sem = 0
  /\ rc = 0
  /\ call_args = None
  /\ sel_args = None
  /\ returned = NoReturn
  /\ written = [p \in Producers |-> 0]
  /\ aborted = FALSE
  /\ inserted = <<>>
  /\ delivered = <<>>
  /\ wait_current = FALSE
  /\ res_current = FALSE
  /\ interrupted = FALSE
  /\ stored = 0
  /\ usr1_late = FALSE
  /\ woken_by = None
  /\ flight_event = FALSE

\* The descriptors the process can have: those with an entry in
\* android_table and one above them.
Descriptors == 0 .. ANDROID_MAX_ASSET_FD

\* The threads of the Java side that may call setEmacsParams.
JavaThreads == {"java1", "java2"}

\* The objects with static storage that android_init_events does not set:
\* they start as zero.
StaticInit ==
  /\ emacs_initialized = 0
  /\ params_pc = [t \in JavaThreads |-> "idle"]
  /\ init_runs = 0
  /\ android_handles = [i \in 0 .. MAX_HANDLE - 1 |-> FALSE]
  /\ max_handle = 0
  /\ handle_ret = -1
  /\ handle_overrun = FALSE
  /\ free_at_alloc = FALSE
  /\ android_table = [fd \in 0 .. ANDROID_MAX_ASSET_FD - 1 |-> FALSE]
  /\ fd_open = [fd \in Descriptors |-> "closed"]
  /\ closing = -1
  /\ assert_failed = FALSE
  /\ fstat_res = [fd |-> -1, from |-> None, asset |-> FALSE]

\* android_init_events with every step succeeding.
Init ==
  /\ Constructed
  /\ init_failed = None
  /\ StaticInit

\* android_init_events: a step that fails is logged, except sem_init, whose
\* result is not looked at, and the function goes on and returns.
BootInit ==
  /\ Constructed
  /\ init_failed \in InitSteps \cup {None}
  /\ StaticInit

\* pthread_create made the select thread.
SelectThreadCreated == init_failed # "pthread_create"

\* sigaction installed android_handle_sigusr1; without it SIGUSR1 has its
\* default action, which ends the process.
HandlerInstalled == init_failed # "sigaction"

(* ------------------------- condition variables ------------------------- *)

\* pthread_cond_signal (&event_queue.read_var): only the Emacs thread waits
\* on read_var, in android_select or in android_next_event.
SignalRead(f) ==
  IF f[Main] = "sel_waiting" THEN [f EXCEPT ![Main] = "sel_woken"]
  ELSE IF f[Main] = "next_waiting" THEN [f EXCEPT ![Main] = "next_woken"]
  ELSE f

\* Whether the Emacs thread is blocked in pthread_cond_wait on read_var.
ReadWaiting(f) == f[Main] \in {"sel_waiting", "next_waiting"}

\* The threads blocked in pthread_cond_wait (&event_queue.write_var).
WriteWaiters(f) == {p \in Producers : f[p] = "w_waiting"}

\* write_var is not signalled.
SignalWriteDropped(f) == {f}

\* pthread_cond_signal (&event_queue.write_var): the functions pc may become.
SignalWrite(f) ==
  IF WriteWaiters(f) = {} THEN {f}
  ELSE {[f EXCEPT ![p] = "w_woken"] : p \in WriteWaiters(f)}

(* --------------------------- android_select ---------------------------- *)

\* nfds_return = android_pselect_rc in place of +=.
SelectResultAssigned(count, prc) ==
  LET n0 == IF count # 0 THEN 1 ELSE 0
      n1 == IF prc >= 0 THEN prc ELSE n0
  IN  IF n1 = 0 /\ prc < 0 THEN prc ELSE n1

\* The error is handed on without looking at nfds_return.
SelectResultError(count, prc) ==
  LET n0 == IF count # 0 THEN 1 ELSE 0
      n1 == IF prc >= 0 THEN n0 + prc ELSE n0
  IN  IF prc < 0 THEN prc ELSE n1

\* The error is never handed on.
SelectResultNoError(count, prc) ==
  LET n0 == IF count # 0 THEN 1 ELSE 0
  IN  IF prc >= 0 THEN n0 + prc ELSE n0

\* The result android_select computes from num_events and android_pselect_rc.
SelectResult(count, prc) ==
  LET n0 == IF count # 0 THEN 1 ELSE 0
      n1 == IF prc >= 0 THEN n0 + prc ELSE n0
  IN  IF n1 = 0 /\ prc < 0 THEN prc ELSE n1

\* The number of events is returned in place of 1.
CheckResultCount == num_events

\* The value android_select returns when it finds events in the queue.
CheckResult == 1

\* A single event is overlooked.
HasEventsOverOne(count) == count > 1

\* Whether android_select returns at once: if (event_queue.num_events).
HasEvents(count) == count # 0

\* The mutex is locked and num_events is looked at: with events in the queue
\* the call returns, without it goes on holding the mutex.
SelectCheck(a) ==
  /\ ~aborted
  /\ UNCHANGED <<init_failed, restVars>>
  /\ pc[Main] = "idle"
  /\ mutex = None
  /\ IF HasEvents(num_events)
       THEN /\ returned' = [fn |-> "android_select", val |-> CheckResult,
                            path |-> "check", j |-> num_events,
                            count |-> num_events, flight |-> FALSE]
            /\ pc' = [pc EXCEPT ![Main] = "done"]
            /\ UNCHANGED <<mutex, android_pselect_completed, sel_args>>
       ELSE /\ mutex' = Main
            /\ sel_args' = a
            /\ android_pselect_completed' = FALSE
            /\ pc' = [pc EXCEPT ![Main] = "sel_arm"]
            /\ UNCHANGED returned
  /\ UNCHANGED <<queueVars, signalVars, cycleVars, wakeVars,
                 android_pselect_args,
                 android_pselect_rc, android_pselect_sem, rc, call_args,
                 select_mutex, written, aborted>>

\* The arguments of the call are not stored.
SelectArmSkipped ==
  /\ ~aborted
  /\ UNCHANGED <<init_failed, restVars>>
  /\ pc[Main] = "sel_arm"
  /\ select_mutex = None
  /\ android_pselect_args' = android_pselect_args
  /\ pc' = [pc EXCEPT ![Main] = "sel_kill2"]
  /\ UNCHANGED <<queueVars, signalVars, cycleVars, wakeVars, returned,
                 sel_args, mutex,
                 select_mutex, android_pselect_rc, android_pselect_completed,
                 android_pselect_sem, rc, call_args, written, aborted>>

\* The arguments are stored under the select lock.
SelectArm ==
  /\ ~aborted
  /\ UNCHANGED <<init_failed, restVars>>
  /\ pc[Main] = "sel_arm"
  /\ select_mutex = None
  /\ android_pselect_args' = sel_args
  /\ pc' = [pc EXCEPT ![Main] = "sel_kill2"]
  /\ UNCHANGED <<queueVars, signalVars, cycleVars, wakeVars, returned,
                 sel_args, mutex,
                 select_mutex, android_pselect_rc, android_pselect_completed,
                 android_pselect_sem, rc, call_args, written, aborted>>

\* pthread_kill (event_queue.select_thread, SIGUSR2)
SelectKillUsr2 ==
  /\ ~aborted
  /\ UNCHANGED <<init_failed, restVars>>
  /\ pc[Main] = "sel_kill2"
  /\ sigusr2' = TRUE
  /\ wait_current' = FALSE
  /\ res_current' = FALSE
  /\ stored' = 0
  /\ pc' = [pc EXCEPT ![Main] = "sel_condwait"]
  /\ UNCHANGED interrupted
  /\ UNCHANGED <<queueVars, selectVars, wakeVars, returned, sel_args, mutex,
                 sigusr1, usr1_late, written, aborted>>

\* pthread_cond_wait (&event_queue.read_var, &event_queue.mutex)
SelectCondWait ==
  /\ ~aborted
  /\ UNCHANGED <<init_failed, restVars>>
  /\ pc[Main] = "sel_condwait"
  /\ mutex' = None
  /\ pc' = [pc EXCEPT ![Main] = "sel_waiting"]
  /\ UNCHANGED <<queueVars, selectVars, signalVars, cycleVars, wakeVars,
                 returned,
                 sel_args, written, aborted>>

\* pthread_cond_wait returns with the mutex locked again.
SelectReacquire ==
  /\ ~aborted
  /\ UNCHANGED <<init_failed, restVars>>
  /\ pc[Main] = "sel_woken"
  /\ mutex = None
  /\ mutex' = Main
  /\ pc' = [pc EXCEPT ![Main] = "sel_kill1"]
  /\ UNCHANGED <<queueVars, selectVars, signalVars, cycleVars, wakeVars,
                 returned,
                 sel_args, written, aborted>>

\* pthread_kill (event_queue.select_thread, SIGUSR1)
SelectKillUsr1 ==
  /\ ~aborted
  /\ UNCHANGED <<init_failed, restVars>>
  /\ pc[Main] = "sel_kill1"
  /\ sigusr1' = TRUE
  /\ usr1_late' = res_current
  /\ pc' = [pc EXCEPT ![Main] = "sel_semwait"]
  /\ UNCHANGED <<queueVars, selectVars, cycleVars, wakeVars, returned,
                 sel_args, mutex,
                 sigusr2, written, aborted>>

\* sem_trywait in place of sem_wait: the call goes on with the semaphore at 0.
SelectSemTryWait ==
  /\ ~aborted
  /\ UNCHANGED <<init_failed, restVars>>
  /\ pc[Main] = "sel_semwait"
  /\ android_pselect_sem' = IF android_pselect_sem > 0
                              THEN android_pselect_sem - 1 ELSE 0
  /\ pc' = [pc EXCEPT ![Main] = "sel_fuse"]
  /\ UNCHANGED <<queueVars, signalVars, cycleVars, wakeVars, returned,
                 sel_args, mutex,
                 select_mutex, android_pselect_args, android_pselect_rc,
                 android_pselect_completed, rc, call_args, written, aborted>>

\* sem_wait (&android_pselect_sem)
SelectSemWait ==
  /\ ~aborted
  /\ UNCHANGED <<init_failed, restVars>>
  /\ pc[Main] = "sel_semwait"
  /\ android_pselect_sem > 0
  /\ android_pselect_sem' = android_pselect_sem - 1
  /\ pc' = [pc EXCEPT ![Main] = "sel_fuse"]
  /\ UNCHANGED <<queueVars, signalVars, cycleVars, wakeVars, returned,
                 sel_args, mutex,
                 select_mutex, android_pselect_args, android_pselect_rc,
                 android_pselect_completed, rc, call_args, written, aborted>>

\* nfds_return is computed, the mutex is unlocked and the call returns.
SelectFuse ==
  /\ ~aborted
  /\ UNCHANGED <<init_failed, restVars>>
  /\ pc[Main] = "sel_fuse"
  /\ returned' = [fn |-> "android_select",
                  val |-> SelectResult(num_events, android_pselect_rc),
                  path |-> "arm", j |-> 0, count |-> num_events,
                  flight |-> flight_event]
  /\ mutex' = None
  /\ sel_args' = None
  /\ woken_by' = None
  /\ flight_event' = FALSE
  /\ pc' = [pc EXCEPT ![Main] = "done"]
  /\ UNCHANGED <<queueVars, selectVars, signalVars, cycleVars, written,
                 aborted>>

\* The caller goes on with what the call returned.
EmacsReturn ==
  /\ ~aborted
  /\ UNCHANGED <<init_failed, restVars>>
  /\ pc[Main] = "done"
  /\ returned' = NoReturn
  /\ pc' = [pc EXCEPT ![Main] = "idle"]
  /\ UNCHANGED <<queueVars, selectVars, signalVars, cycleVars, wakeVars,
                 sel_args,
                 mutex, written, aborted>>

(* --------------------------- android_pending --------------------------- *)

\* The call takes an event out of the count it reports.
AndroidPendingConsumes ==
  /\ ~aborted
  /\ UNCHANGED <<init_failed, restVars>>
  /\ pc[Main] = "idle"
  /\ mutex = None
  /\ returned' = [fn |-> "android_pending", val |-> num_events]
  /\ num_events' = IF num_events > 0 THEN num_events - 1 ELSE num_events
  /\ pc' = [pc EXCEPT ![Main] = "done"]
  /\ UNCHANGED <<events, inserted, delivered, selectVars, signalVars,
                 cycleVars, wakeVars, sel_args, mutex, written, aborted>>

\* i = event_queue.num_events under the mutex, and return i.
AndroidPending ==
  /\ ~aborted
  /\ UNCHANGED <<init_failed, restVars>>
  /\ pc[Main] = "idle"
  /\ mutex = None
  /\ returned' = [fn |-> "android_pending", val |-> num_events]
  /\ pc' = [pc EXCEPT ![Main] = "done"]
  /\ UNCHANGED <<queueVars, selectVars, signalVars, cycleVars, wakeVars,
                 sel_args,
                 mutex, written, aborted>>

(* ------------------------- android_next_event -------------------------- *)

\* The container android_next_event unlinks is events.last, the oldest
\* one; write_var is signalled and the mutex unlocked.
RemoveLast(f) ==
  /\ events # <<>>
  /\ returned' = [fn |-> "android_next_event", val |-> events[Len(events)]]
  /\ delivered' = Append(delivered, events[Len(events)])
  /\ events' = SubSeq(events, 1, Len(events) - 1)
  /\ num_events' = num_events - 1
  /\ mutex' = None
  /\ woken_by' = None
  /\ pc' \in SignalWrite([f EXCEPT ![Main] = "done"])
  /\ UNCHANGED <<selectVars, signalVars, cycleVars, flight_event, sel_args,
                 written, aborted, inserted>>

\* events.last is the list head itself: eassert ends the process.
RemoveAssert ==
  /\ events = <<>>
  /\ aborted' = TRUE
  /\ UNCHANGED <<queueVars, selectVars, signalVars, cycleVars, wakeVars,
                 sel_args,
                 returned, mutex, pc, written>>

\* The same without assertions: the head is unlinked from itself, its event
\* field is copied out, num_events is decremented and the head, which malloc
\* never returned, is passed to free.  free either ends the process or
\* returns, and then the call returns what the head's event field held.
RemoveHead(f) ==
  /\ events = <<>>
  /\ num_events' = num_events - 1
  /\ \/ /\ aborted' = TRUE
        /\ UNCHANGED <<mutex, pc, returned, delivered>>
     \/ /\ num_events > -MaxUnderflow
        /\ returned' = [fn |-> "android_next_event", val |-> SentinelEvent]
        /\ delivered' = Append(delivered, SentinelEvent)
        /\ mutex' = None
        /\ pc' \in SignalWrite([f EXCEPT ![Main] = "done"])
        /\ UNCHANGED aborted
  /\ woken_by' = None
  /\ UNCHANGED <<selectVars, signalVars, cycleVars, flight_event, sel_args,
                 written, events, inserted>>

\* Whether android_next_event waits: if (!event_queue.num_events).
NoEvents(count) == count = 0

\* The mutex is locked; without events the call waits on read_var, with
\* events it takes one.
NextEvent ==
  /\ ~aborted
  /\ UNCHANGED <<init_failed, restVars>>
  /\ pc[Main] = "idle"
  /\ mutex = None
  /\ IF NoEvents(num_events)
       THEN /\ pc' = [pc EXCEPT ![Main] = "next_waiting"]
            /\ UNCHANGED <<queueVars, selectVars, signalVars, cycleVars,
                           wakeVars,
                           sel_args, returned, mutex, written, aborted>>
       ELSE \/ RemoveLast(pc)
            \/ RemoveAssert
            \/ RemoveHead(pc)

\* pthread_cond_wait returns with the mutex locked again, and the call
\* takes an event without looking at num_events again.
NextEventWoken ==
  /\ ~aborted
  /\ UNCHANGED <<init_failed, restVars>>
  /\ pc[Main] = "next_woken"
  /\ mutex = None
  /\ \/ RemoveLast(pc)
     \/ RemoveAssert
     \/ RemoveHead(pc)

(* ------------------------- android_write_event ------------------------- *)

RECURSIVE Total(_, _)
Total(f, S) ==
  IF S = {} THEN 0
  ELSE LET p == CHOOSE x \in S : TRUE IN f[p] + Total(f, S \ {p})

\* android_write_event calls made so far.
TotalWritten == Total(written, Producers)

\* malloc is called with the mutex locked.
WriteMallocFailLocked(p) ==
  /\ ~aborted
  /\ UNCHANGED <<init_failed, restVars>>
  /\ pc[p] = "idle"
  /\ TotalWritten < MaxEvents
  /\ mutex = None
  /\ written' = [written EXCEPT ![p] = written[p] + 1]
  /\ UNCHANGED <<queueVars, selectVars, signalVars, cycleVars, wakeVars,
                 sel_args,
                 returned, mutex, pc, aborted>>

\* malloc returns NULL: the event is dropped.
WriteMallocFail(p) ==
  /\ ~aborted
  /\ UNCHANGED <<init_failed, restVars>>
  /\ pc[p] = "idle"
  /\ TotalWritten < MaxEvents
  /\ written' = [written EXCEPT ![p] = written[p] + 1]
  /\ UNCHANGED <<queueVars, selectVars, signalVars, cycleVars, wakeVars,
                 sel_args,
                 returned, mutex, pc, aborted>>

\* The container is linked at events.next, read_var is signalled and the
\* mutex unlocked.
Link(p, e, f) ==
  /\ events' = <<e>> \o events
  /\ inserted' = Append(inserted, e)
  /\ num_events' = num_events + 1
  /\ mutex' = None
  /\ pc' = SignalRead([f EXCEPT ![p] = "idle"])
  /\ woken_by' = IF ReadWaiting(f) THEN "event" ELSE woken_by
  /\ flight_event' = (flight_event \/ f[Sel] = "pselect")
  /\ UNCHANGED <<selectVars, signalVars, cycleVars, sel_args, returned,
                 aborted, delivered>>

\* Whether android_write_event waits for events to be read.
QueueFull(count) == count >= QueueLimit

\* The container is allocated and the mutex locked; with a full queue the
\* call waits on write_var, otherwise it links the container.
WriteEvent(p) ==
  /\ ~aborted
  /\ UNCHANGED <<init_failed, restVars>>
  /\ pc[p] = "idle"
  /\ TotalWritten < MaxEvents
  /\ mutex = None
  /\ written' = [written EXCEPT ![p] = written[p] + 1]
  /\ IF QueueFull(num_events)
       THEN /\ pc' = [pc EXCEPT ![p] = "w_waiting"]
            /\ UNCHANGED <<queueVars, selectVars, signalVars, cycleVars,
                           wakeVars,
                           sel_args, returned, mutex, aborted>>
       ELSE Link(p, <<p, written[p] + 1>>, pc)

\* pthread_cond_wait returns with the mutex locked again, and the call
\* links the container without looking at num_events again.
WriteWoken(p) ==
  /\ ~aborted
  /\ UNCHANGED <<init_failed, restVars>>
  /\ pc[p] = "w_woken"
  /\ mutex = None
  /\ Link(p, <<p, written[p]>>, pc)
  /\ UNCHANGED written

(* ---------------------- android_run_select_thread ---------------------- *)

\* The value pselect returns when a signal handler has run during it.
Eintr == -1

\* SIGUSR1 is left blocked, as every other signal is.
Usr1LeftBlocked(where) == FALSE

\* SIGUSR1 is unblocked for the time of pselect only.
Usr1UnblockedInPselect(where) == where = "pselect"

\* Whether SIGUSR1 is unblocked in the select thread at `where': the thread
\* unblocks it once, before its loop.
Usr1Unblocked(where) == TRUE

\* sigwait returns with SIGUSR2.  The thread comes back from the system
\* call, so an unblocked SIGUSR1 that is pending is delivered on the way:
\* android_handle_sigusr1 runs before the code after sigwait does, and
\* without the handler the signal ends the process.
SigwaitUsr2 ==
  /\ ~aborted
  /\ UNCHANGED <<init_failed, restVars>>
  /\ SelectThreadCreated
  /\ pc[Sel] = "sigwait"
  /\ sigusr2
  /\ sigusr2' = FALSE
  /\ sigusr1' = (sigusr1 /\ ~Usr1Unblocked(pc[Sel]))
  /\ usr1_late' = (usr1_late /\ ~Usr1Unblocked(pc[Sel]))
  /\ aborted' = (sigusr1 /\ Usr1Unblocked(pc[Sel]) /\ ~HandlerInstalled)
  /\ wait_current' = TRUE
  /\ pc' = [pc EXCEPT ![Sel] = "p_lock"]
  /\ UNCHANGED <<queueVars, selectVars, wakeVars, sel_args, returned, mutex,
                 res_current, interrupted, stored, written>>

\* The select lock is released before pselect is called.
ProxyLockSelectReleased ==
  /\ ~aborted
  /\ UNCHANGED <<init_failed, restVars>>
  /\ SelectThreadCreated
  /\ pc[Sel] = "p_lock"
  /\ select_mutex = None
  /\ select_mutex' = None
  /\ call_args' = android_pselect_args
  /\ pc' = [pc EXCEPT ![Sel] = "pselect"]
  /\ UNCHANGED <<queueVars, signalVars, cycleVars, wakeVars, sel_args,
                 returned, mutex, android_pselect_args, android_pselect_rc,
                 android_pselect_completed, android_pselect_sem, rc, written,
                 aborted>>

\* The select lock is taken and pselect is entered with the arguments.
ProxyLockSelect ==
  /\ ~aborted
  /\ UNCHANGED <<init_failed, restVars>>
  /\ SelectThreadCreated
  /\ pc[Sel] = "p_lock"
  /\ select_mutex = None
  /\ select_mutex' = Sel
  /\ call_args' = android_pselect_args
  /\ pc' = [pc EXCEPT ![Sel] = "pselect"]
  /\ UNCHANGED <<queueVars, signalVars, cycleVars, wakeVars, sel_args,
                 returned, mutex, android_pselect_args, android_pselect_rc,
                 android_pselect_completed, android_pselect_sem, rc, written,
                 aborted>>

\* pselect returns by itself: descriptors are ready, the timeout ran out or
\* the call failed.
PselectReturn(r) ==
  /\ ~aborted
  /\ UNCHANGED <<init_failed, restVars>>
  /\ SelectThreadCreated
  /\ pc[Sel] = "pselect"
  /\ rc' = r
  /\ call_args' = None
  /\ res_current' = wait_current
  /\ interrupted' = FALSE
  /\ pc' = [pc EXCEPT ![Sel] = "p_store"]
  /\ UNCHANGED <<queueVars, signalVars, wakeVars, sel_args, returned, mutex,
                 select_mutex, android_pselect_args, android_pselect_rc,
                 android_pselect_completed, android_pselect_sem,
                 wait_current, stored, written, aborted>>

\* A pending SIGUSR1 is delivered: android_handle_sigusr1 runs and does
\* nothing; a pselect in flight returns EINTR.  Without the handler the
\* signal ends the process.
HandleSigusr1 ==
  /\ ~aborted
  /\ UNCHANGED <<init_failed, restVars>>
  /\ SelectThreadCreated
  /\ sigusr1
  /\ Usr1Unblocked(pc[Sel])
  /\ sigusr1' = FALSE
  /\ usr1_late' = FALSE
  /\ aborted' = ~HandlerInstalled
  /\ IF pc[Sel] = "pselect" /\ HandlerInstalled
       THEN /\ rc' = Eintr
            /\ call_args' = None
            /\ res_current' = wait_current
            /\ interrupted' = TRUE
            /\ pc' = [pc EXCEPT ![Sel] = "p_store"]
       ELSE UNCHANGED <<rc, call_args, res_current, interrupted, pc>>
  /\ UNCHANGED <<queueVars, wakeVars, sel_args, returned, mutex,
                 select_mutex, sigusr2,
                 android_pselect_args, android_pselect_rc,
                 android_pselect_completed, android_pselect_sem,
                 wait_current, stored, written>>

\* The select lock is not released after the result is stored.
ProxyStoreKeepsLock ==
  /\ ~aborted
  /\ UNCHANGED <<init_failed, restVars>>
  /\ SelectThreadCreated
  /\ pc[Sel] = "p_store"
  /\ android_pselect_rc' = rc
  /\ select_mutex' = select_mutex
  /\ stored' = stored + 1
  /\ pc' = [pc EXCEPT ![Sel] = "p_post"]
  /\ UNCHANGED <<queueVars, signalVars, wait_current, res_current,
                 interrupted, wakeVars, sel_args,
                 returned, mutex,
                 android_pselect_args, android_pselect_completed,
                 android_pselect_sem, rc, call_args, written, aborted>>

\* android_pselect_rc = rc, and the select lock is released.
ProxyStore ==
  /\ ~aborted
  /\ UNCHANGED <<init_failed, restVars>>
  /\ SelectThreadCreated
  /\ pc[Sel] = "p_store"
  /\ android_pselect_rc' = rc
  /\ select_mutex' = None
  /\ stored' = stored + 1
  /\ pc' = [pc EXCEPT ![Sel] = "p_post"]
  /\ UNCHANGED <<queueVars, signalVars, wait_current, res_current,
                 interrupted, wakeVars, sel_args,
                 returned, mutex,
                 android_pselect_args, android_pselect_completed,
                 android_pselect_sem, rc, call_args, written, aborted>>

\* sem_post is left out.
ProxyPostSkipped ==
  /\ ~aborted
  /\ UNCHANGED <<init_failed, restVars>>
  /\ SelectThreadCreated
  /\ pc[Sel] = "p_post"
  /\ pc' = [pc EXCEPT ![Sel] = "p_lockq"]
  /\ UNCHANGED <<queueVars, signalVars, cycleVars, wakeVars, sel_args,
                 returned, mutex, selectVars, written, aborted>>

\* sem_post is called a second time.
ProxyPostTwice ==
  /\ ~aborted
  /\ UNCHANGED <<init_failed, restVars>>
  /\ SelectThreadCreated
  /\ pc[Sel] = "p_post"
  /\ android_pselect_sem' = android_pselect_sem + 2
  /\ pc' = [pc EXCEPT ![Sel] = "p_lockq"]
  /\ UNCHANGED <<queueVars, signalVars, cycleVars, wakeVars, sel_args,
                 returned, mutex,
                 select_mutex, android_pselect_args, android_pselect_rc,
                 android_pselect_completed, rc, call_args, written, aborted>>

\* sem_post (&android_pselect_sem)
ProxyPost ==
  /\ ~aborted
  /\ UNCHANGED <<init_failed, restVars>>
  /\ SelectThreadCreated
  /\ pc[Sel] = "p_post"
  /\ android_pselect_sem' = android_pselect_sem + 1
  /\ pc' = [pc EXCEPT ![Sel] = "p_lockq"]
  /\ UNCHANGED <<queueVars, signalVars, cycleVars, wakeVars, sel_args,
                 returned, mutex,
                 select_mutex, android_pselect_args, android_pselect_rc,
                 android_pselect_completed, rc, call_args, written, aborted>>

\* read_var is signalled without taking the queue mutex.
ProxyCompleteUnlocked ==
  /\ ~aborted
  /\ UNCHANGED <<init_failed, restVars>>
  /\ SelectThreadCreated
  /\ pc[Sel] = "p_lockq"
  /\ android_pselect_completed' = TRUE
  /\ pc' = SignalRead([pc EXCEPT ![Sel] = "sigwait"])
  /\ woken_by' = IF ReadWaiting(pc) THEN "select" ELSE woken_by
  /\ UNCHANGED <<queueVars, signalVars, cycleVars, flight_event, sel_args,
                 returned, mutex,
                 select_mutex, android_pselect_args, android_pselect_rc,
                 android_pselect_sem, rc, call_args, written, aborted>>

\* Under the queue mutex android_pselect_completed is set and read_var is
\* signalled.
ProxyComplete ==
  /\ ~aborted
  /\ UNCHANGED <<init_failed, restVars>>
  /\ SelectThreadCreated
  /\ pc[Sel] = "p_lockq"
  /\ mutex = None
  /\ android_pselect_completed' = TRUE
  /\ pc' = SignalRead([pc EXCEPT ![Sel] = "sigwait"])
  /\ woken_by' = IF ReadWaiting(pc) THEN "select" ELSE woken_by
  /\ UNCHANGED <<queueVars, signalVars, cycleVars, flight_event, sel_args,
                 returned, mutex,
                 select_mutex, android_pselect_args, android_pselect_rc,
                 android_pselect_sem, rc, call_args, written, aborted>>

(* ---------------------------- specification ---------------------------- *)

Next ==
  \/ \E a \in SelectArgs : SelectCheck(a)
  \/ SelectArm
  \/ SelectKillUsr2
  \/ SelectCondWait
  \/ SelectReacquire
  \/ SelectKillUsr1
  \/ SelectSemWait
  \/ SelectFuse
  \/ AndroidPending
  \/ NextEvent
  \/ NextEventWoken
  \/ EmacsReturn
  \/ \E p \in Producers : WriteMallocFail(p)
  \/ \E p \in Producers : WriteEvent(p)
  \/ \E p \in Producers : WriteWoken(p)
  \/ SigwaitUsr2
  \/ ProxyLockSelect
  \/ \E r \in PselectResults : PselectReturn(r)
  \/ HandleSigusr1
  \/ ProxyStore
  \/ ProxyPost
  \/ ProxyComplete

Spec == Init /\ [][Next]_vars

\* The steps that carry a call of the Emacs thread on once it has begun.
EmacsProgress ==
  \/ SelectArm
  \/ SelectKillUsr2
  \/ SelectCondWait
  \/ SelectReacquire
  \/ SelectKillUsr1
  \/ SelectSemWait
  \/ SelectFuse
  \/ NextEventWoken
  \/ EmacsReturn

\* The steps of the select thread other than pselect returning by itself;
\* the delivery of a pending SIGUSR1 is one of them.
ProxyProgress ==
  \/ SigwaitUsr2
  \/ ProxyLockSelect
  \/ HandleSigusr1
  \/ ProxyStore
  \/ ProxyPost
  \/ ProxyComplete

\* Every thread that can run does run.  Nothing makes pselect return by
\* itself (an infinite timeout, no descriptor activity), and nothing makes a
\* thread begin a call.
Fairness ==
  /\ WF_vars(EmacsProgress)
  /\ WF_vars(ProxyProgress)
  /\ \A p \in Producers : WF_vars(WriteWoken(p))

\* The steps of a run in which malloc does not fail.
FairNext ==
  \/ \E a \in SelectArgs : SelectCheck(a)
  \/ SelectArm
  \/ SelectKillUsr2
  \/ SelectCondWait
  \/ SelectReacquire
  \/ SelectKillUsr1
  \/ SelectSemWait
  \/ SelectFuse
  \/ AndroidPending
  \/ NextEvent
  \/ NextEventWoken
  \/ EmacsReturn
  \/ \E p \in Producers : WriteEvent(p)
  \/ \E p \in Producers : WriteWoken(p)
  \/ SigwaitUsr2
  \/ ProxyLockSelect
  \/ \E r \in PselectResults : PselectReturn(r)
  \/ HandleSigusr1
  \/ ProxyStore
  \/ ProxyPost
  \/ ProxyComplete

FairSpec == Init /\ [][FairNext]_vars /\ Fairness

\* A thread uses an object android_init_events failed to set up (a mutex, a
\* condition variable, the semaphore, the thread id): what that does is not
\* defined, and one thing it can do is end the process.
UninitialisedUse ==
  /\ ~aborted
  /\ UNCHANGED <<init_failed, restVars>>
  /\ init_failed \in InitSteps \ {"sigaction"}
  /\ \E t \in Threads : pc[t] \notin {"idle", "sigwait"}
  /\ aborted' = TRUE
  /\ UNCHANGED <<queueVars, selectVars, signalVars, cycleVars, wakeVars,
                 sel_args, returned, mutex, pc, written>>

\* The steps of a run that begins with android_init_events and in which
\* malloc does not fail.
BootNext ==
  \/ \E a \in SelectArgs : SelectCheck(a)
  \/ SelectArm
  \/ SelectKillUsr2
  \/ SelectCondWait
  \/ SelectReacquire
  \/ SelectKillUsr1
  \/ SelectSemWait
  \/ SelectFuse
  \/ AndroidPending
  \/ NextEvent
  \/ NextEventWoken
  \/ EmacsReturn
  \/ \E p \in Producers : WriteEvent(p)
  \/ \E p \in Producers : WriteWoken(p)
  \/ SigwaitUsr2
  \/ ProxyLockSelect
  \/ \E r \in PselectResults : PselectReturn(r)
  \/ HandleSigusr1
  \/ ProxyStore
  \/ ProxyPost
  \/ ProxyComplete
  \/ UninitialisedUse

BootSpec == BootInit /\ [][BootNext]_vars

\* A thread other than the Emacs thread calls android_pending and comes to
\* its pthread_mutex_lock.
PendingBegin(p) ==
  /\ ~aborted
  /\ UNCHANGED <<init_failed, restVars>>
  /\ pc[p] = "idle"
  /\ pc' = [pc EXCEPT ![p] = "pend_lock"]
  /\ UNCHANGED <<queueVars, selectVars, signalVars, cycleVars, wakeVars,
                 sel_args, returned, mutex, written, aborted>>

\* That thread gets the mutex, reads num_events, unlocks and returns.
PendingFrom(p) ==
  /\ ~aborted
  /\ UNCHANGED <<init_failed, restVars>>
  /\ pc[p] = "pend_lock"
  /\ mutex = None
  /\ pc' = [pc EXCEPT ![p] = "idle"]
  /\ UNCHANGED <<queueVars, selectVars, signalVars, cycleVars, wakeVars,
                 sel_args, returned, mutex, written, aborted>>

\* The steps of a run in which malloc does not fail and the threads that
\* write events also call android_pending.
PendingNext ==
  \/ \E a \in SelectArgs : SelectCheck(a)
  \/ SelectArm
  \/ SelectKillUsr2
  \/ SelectCondWait
  \/ SelectReacquire
  \/ SelectKillUsr1
  \/ SelectSemWait
  \/ SelectFuse
  \/ AndroidPending
  \/ NextEvent
  \/ NextEventWoken
  \/ EmacsReturn
  \/ \E p \in Producers : WriteEvent(p)
  \/ \E p \in Producers : WriteWoken(p)
  \/ SigwaitUsr2
  \/ ProxyLockSelect
  \/ \E r \in PselectResults : PselectReturn(r)
  \/ HandleSigusr1
  \/ ProxyStore
  \/ ProxyPost
  \/ ProxyComplete
  \/ \E p \in Producers : PendingBegin(p)
  \/ \E p \in Producers : PendingFrom(p)

\* A thread that waits for the mutex gets it if it is free again and again:
\* only a thread that keeps the mutex for ever keeps the caller out.
PendingSpec ==
  /\ Init
  /\ [][PendingNext]_vars
  /\ Fairness
  /\ \A p \in Producers : SF_vars(PendingFrom(p))

(* --------------------------- setEmacsParams ---------------------------- *)

\* emacs_initialized is an int: a value that leaves its range wraps round.
WrapInt(x) ==
  ((x + IntModulus \div 2) % IntModulus) - IntModulus \div 2

\* __atomic_fetch_add (&emacs_initialized, -1, __ATOMIC_RELAXED) in one
\* step: with the old value not 0 the call is to throw, with 0 it goes on.
SetEmacsParams(t) ==
  /\ params_pc[t] = "idle"
  /\ init_runs < MaxInits
  /\ emacs_initialized' = WrapInt(emacs_initialized - 1)
  /\ params_pc' = [params_pc EXCEPT
                     ![t] = IF emacs_initialized # 0 THEN "throw" ELSE "init"]
  /\ UNCHANGED <<init_runs, eventVars, handleVars, assetVars>>

\* ANDROID_THROW of IllegalArgumentException, and return.
ParamsThrow(t) ==
  /\ params_pc[t] = "throw"
  /\ params_pc' = [params_pc EXCEPT ![t] = "idle"]
  /\ UNCHANGED <<emacs_initialized, init_runs, eventVars, handleVars,
                 assetVars>>

\* The rest of setEmacsParams: the asset manager, the debug thread, the
\* directories, the service reference and android_init_events.
ParamsInitialise(t) ==
  /\ params_pc[t] = "init"
  /\ init_runs' = init_runs + 1
  /\ params_pc' = [params_pc EXCEPT ![t] = "idle"]
  /\ UNCHANGED <<emacs_initialized, eventVars, handleVars, assetVars>>

ParamsNext ==
  \/ \E t \in JavaThreads : SetEmacsParams(t)
  \/ \E t \in JavaThreads : ParamsThrow(t)
  \/ \E t \in JavaThreads : ParamsInitialise(t)

\* Calls of setEmacsParams from the Java threads, in any number and order.
ParamsSpec == Init /\ [][ParamsNext]_vars

(* ------------------------------ handles -------------------------------- *)

\* An android_handle is an unsigned 16-bit number, passed to Java as a
\* jshort: one more than the largest is 0.
WrapHandle(x) == x % (MAX_HANDLE + 1)

\* android_handles[i].handle is not NULL.  The table has entries 0 to
\* MAX_HANDLE - 1; reading entry MAX_HANDLE reads what lies behind the
\* table, which is beyond.
HandleUsed(table, i, beyond) ==
  IF i < MAX_HANDLE THEN table[i] ELSE beyond

\* The loop of android_alloc_id, from max_handle = mh: what is returned and
\* what max_handle is left as.
RECURSIVE AllocLoop(_, _, _, _)
AllocLoop(mh, handle, table, beyond) ==
  IF mh < handle
    THEN LET m1 == WrapHandle(mh + 1)
             m2 == IF m1 = 0 THEN WrapHandle(m1 + 1) ELSE m1
         IN IF ~HandleUsed(table, m2, beyond)
              THEN [ret |-> 0, max |-> m2]
              ELSE AllocLoop(m2, handle, table, beyond)
    ELSE [ret |-> 0, max |-> mh]

\* android_alloc_id: what is returned and what max_handle is left as.
android_alloc_id(mh, table, beyond) ==
  LET m == IF mh = 0 THEN WrapHandle(mh + 1) ELSE mh
  IN IF HandleUsed(table, m, beyond)
       THEN AllocLoop(m, WrapHandle(m + 1), table, beyond)
       ELSE [ret |-> m, max |-> WrapHandle(m + 1)]

\* android_create_window, android_create_gc and android_create_pixmap:
\* an identifier is allocated; with 0 the call signals an error; if
\* NewObject fails max_handle is put back; otherwise the object is stored
\* in the entry of the identifier.
CreateHandle(beyond, made) ==
  LET r == android_alloc_id(max_handle, android_handles, beyond)
  IN /\ handle_ret' = r.ret
     /\ free_at_alloc' = (\E i \in 1 .. MAX_HANDLE - 1 : ~android_handles[i])
     /\ IF r.ret = 0
          THEN /\ max_handle' = r.max
               /\ UNCHANGED <<android_handles, handle_overrun>>
          ELSE IF ~made
          THEN UNCHANGED <<max_handle, android_handles, handle_overrun>>
          ELSE /\ max_handle' = r.max
               /\ IF r.ret < MAX_HANDLE
                    THEN /\ android_handles' =
                              [android_handles EXCEPT ![r.ret] = TRUE]
                         /\ UNCHANGED handle_overrun
                    ELSE /\ handle_overrun' = TRUE
                         /\ UNCHANGED android_handles
     /\ UNCHANGED <<eventVars, paramsVars, assetVars>>

\* android_destroy_handle of an object the program holds.
DestroyHandle(h) ==
  /\ android_handles[h]
  /\ android_handles' = [android_handles EXCEPT ![h] = FALSE]
  /\ UNCHANGED <<max_handle, handle_ret, handle_overrun, free_at_alloc,
                 eventVars, paramsVars, assetVars>>

HandleNext ==
  \/ \E beyond \in BOOLEAN, made \in BOOLEAN : CreateHandle(beyond, made)
  \/ \E h \in 1 .. MAX_HANDLE - 1 : DestroyHandle(h)

\* Windows, graphics contexts and pixmaps are created and destroyed in any
\* order.
HandleSpec == Init /\ [][HandleNext]_vars

(* ------------------------------- assets -------------------------------- *)

\* Whether android_fstat and android_close take the descriptor for an
\* asset: fd < ANDROID_MAX_ASSET_FD and the valid bit of its entry is set.
IsValidEntry(fd) == fd < ANDROID_MAX_ASSET_FD /\ android_table[fd]

\* android_open of an asset: the system hands out a descriptor that is not
\* open.  One that is too large is closed again and -1 returned; otherwise
\* its entry is asserted not to be valid and is made valid.
AndroidOpenAsset(fd) ==
  /\ ~assert_failed
  /\ fd_open[fd] = "closed"
  /\ IF fd >= ANDROID_MAX_ASSET_FD
       THEN UNCHANGED <<android_table, fd_open, assert_failed>>
       ELSE /\ assert_failed' = android_table[fd]
            /\ android_table' = [android_table EXCEPT ![fd] = TRUE]
            /\ fd_open' = [fd_open EXCEPT ![fd] = "asset"]
  /\ UNCHANGED <<closing, fstat_res, eventVars, paramsVars, handleVars>>

\* android_open of a file that is not an asset: open.
AndroidOpenFile(fd) ==
  /\ ~assert_failed
  /\ fd_open[fd] = "closed"
  /\ fd_open' = [fd_open EXCEPT ![fd] = "file"]
  /\ UNCHANGED <<android_table, closing, assert_failed, fstat_res, eventVars,
                 paramsVars, handleVars>>

\* The valid bit is left as it is.
AndroidCloseKeepsFlag(fd) ==
  /\ ~assert_failed
  /\ closing = -1
  /\ fd_open[fd] # "closed"
  /\ closing' = fd
  /\ UNCHANGED <<android_table, fd_open, assert_failed, fstat_res, eventVars,
                 paramsVars, handleVars>>

\* android_close of a descriptor the program has open, up to the call of
\* close: the flags of a valid entry are set to 0.
AndroidClose(fd) ==
  /\ ~assert_failed
  /\ closing = -1
  /\ fd_open[fd] # "closed"
  /\ closing' = fd
  /\ android_table' = IF IsValidEntry(fd)
                        THEN [android_table EXCEPT ![fd] = FALSE]
                        ELSE android_table
  /\ UNCHANGED <<fd_open, assert_failed, fstat_res, eventVars, paramsVars,
                 handleVars>>

\* return close (fd)
AndroidCloseReturn ==
  /\ ~assert_failed
  /\ closing # -1
  /\ fd_open' = [fd_open EXCEPT ![closing] = "closed"]
  /\ closing' = -1
  /\ UNCHANGED <<android_table, assert_failed, fstat_res, eventVars,
                 paramsVars, handleVars>>

\* android_fstat: a valid entry answers, otherwise fstat does.
AndroidFstat(fd) ==
  /\ ~assert_failed
  /\ fstat_res' = [fd |-> fd,
                   from |-> IF IsValidEntry(fd) THEN "table" ELSE "fstat",
                   asset |-> fd_open[fd] = "asset"]
  /\ UNCHANGED <<android_table, fd_open, closing, assert_failed, eventVars,
                 paramsVars, handleVars>>

AssetNext ==
  \/ \E fd \in Descriptors : AndroidOpenAsset(fd)
  \/ \E fd \in Descriptors : AndroidOpenFile(fd)
  \/ \E fd \in Descriptors : AndroidClose(fd)
  \/ AndroidCloseReturn
  \/ \E fd \in Descriptors : AndroidFstat(fd)

\* Files and assets are opened, looked at and closed in any order, by any
\* threads, every close going through android_close.
AssetSpec == Init /\ [][AssetNext]_vars

(* ------------------------------- claims -------------------------------- *)

\* What android_select has just returned, if that is what the Emacs thread
\* did last.
SelectReturned == pc[Main] = "done" /\ returned.fn = "android_select"

\* The events of producer p among those of sequence q, in order.
RECURSIVE OfProducer(_, _)
OfProducer(q, p) ==
  IF q = <<>> THEN <<>>
  ELSE IF q[1][1] = p THEN <<q[1][2]>> \o OfProducer(Tail(q), p)
  ELSE OfProducer(Tail(q), p)

\* C1: every event android_write_event linked is returned by
\* android_next_event exactly once while the Emacs thread keeps taking
\* events: what was returned so far holds only events that were linked, none
\* of them twice, those of one producer in the order it wrote them, and
\* taking an event never ends the process.
C1_EveryEventOnce ==
  /\ ~aborted
  /\ \A i \in DOMAIN delivered :
       /\ \E k \in DOMAIN inserted : inserted[k] = delivered[i]
       /\ \A k \in DOMAIN delivered : delivered[k] = delivered[i] => k = i
  /\ \A p \in Producers :
       \A i, k \in DOMAIN OfProducer(delivered, p) :
         i < k => OfProducer(delivered, p)[i] < OfProducer(delivered, p)[k]

\* C2: the queue never holds more events than its capacity.
C2_CapacityNeverExceeded ==
  /\ num_events <= QueueLimit
  /\ Len(events) <= QueueLimit

\* C3: once an event has woken the Emacs thread from the wait on read_var in
\* android_select, android_select returns, even if pselect never returns by
\* itself.
C3_WokenByEventReturns ==
  (pc[Main] = "sel_woken" /\ woken_by = "event") ~> (pc[Main] = "done")

C5_QueuedEventsShortCircuit ==
  [][(pc[Main] = "idle" /\ num_events > 0)
       => /\ pc'[Main] # "sel_arm"
          /\ (pc'[Main] = "done" /\ returned'.fn = "android_select")
               => /\ returned'.val = 1
                  /\ returned'.path = "check"
                  /\ android_pselect_args' = android_pselect_args
                  /\ sigusr2' = sigusr2
                  /\ pc'[Sel] = pc[Sel]
                  /\ mutex' = None]_vars

\* android_select returned 1 from its check and no call has ever stored
\* arguments, sent SIGUSR2 or started pselect.
C5_Witness ==
  /\ SelectReturned
  /\ returned.path = "check"
  /\ returned.val = 1
  /\ android_pselect_args = None
  /\ pc[Sel] = "sigwait"
  /\ ~sigusr2

\* C6 as stated: with j events queued when android_select is called it
\* returns j + k for some k >= 0; with none queued and none arriving it
\* returns what pselect returned.
C6_ReturnsQueuedPlusReady ==
  SelectReturned =>
    /\ returned.j > 0 => returned.val >= returned.j
    /\ (returned.j = 0 /\ returned.count = 0)
         => returned.val = android_pselect_rc

\* C6 as amended: with events queued when android_select is called it
\* returns 1, however many they are; with none queued it returns what
\* pselect returned if no event has arrived by then, and otherwise 1 plus
\* the descriptors pselect found ready.
C6_ReturnsOneWhenQueued ==
  SelectReturned =>
    /\ returned.j > 0 => returned.val = 1
    /\ (returned.j = 0 /\ returned.count = 0)
         => returned.val = android_pselect_rc
    /\ (returned.j = 0 /\ returned.count > 0)
         => returned.val = 1 + (IF android_pselect_rc > 0
                                  THEN android_pselect_rc ELSE 0)

\* android_select was called with two events queued and returned 1.
C6_Witness ==
  /\ SelectReturned
  /\ returned.j = 2
  /\ returned.val = 1

\* C7: after arming, android_select returns n = (1 if num_events > 0) +
\* (rc if rc >= 0), or rc if n = 0 and rc < 0, where rc is what the pselect
\* call started for this android_select call returned.
C7_FusedResult ==
  (SelectReturned /\ returned.path = "arm") =>
    LET n == (IF returned.count > 0 THEN 1 ELSE 0) + (IF rc >= 0 THEN rc ELSE 0)
    IN  /\ res_current
        /\ returned.val = IF n = 0 /\ rc < 0 THEN rc ELSE n

\* android_select returned 2: an event had arrived and pselect, started for
\* this call, had found a descriptor ready.
C7_Witness ==
  /\ SelectReturned
  /\ returned.path = "arm"
  /\ returned.count > 0
  /\ res_current
  /\ rc = 1
  /\ returned.val = 2

\* C8: android_select returns at least 1 whenever num_events is above 0 or
\* pselect reported a ready descriptor when the result is computed.
C8_ReadyMeansPositive ==
  (SelectReturned /\ (\/ returned.count > 0
                      \/ returned.path = "arm" /\ android_pselect_rc >= 1))
    => returned.val >= 1

\* pselect was interrupted by SIGUSR1 with an event queued, and
\* android_select returned 1.
C8_Witness ==
  /\ SelectReturned
  /\ returned.path = "arm"
  /\ returned.count > 0
  /\ interrupted
  /\ android_pselect_rc < 0
  /\ returned.val = 1

\* C9: android_select returns a negative value only with num_events at 0
\* and a negative pselect result, which it returns as it is; it returns 0
\* only with num_events at 0 and a pselect result of 0.
C9_NegativeAndZeroResults ==
  SelectReturned =>
    /\ returned.val < 0 => /\ returned.path = "arm"
                           /\ returned.count = 0
                           /\ android_pselect_rc < 0
                           /\ returned.val = android_pselect_rc
    /\ returned.val = 0 => /\ returned.path = "arm"
                           /\ returned.count = 0
                           /\ android_pselect_rc = 0

\* pselect failed by itself and android_select returned its error, with
\* nothing queued.
C9_Witness ==
  /\ SelectReturned
  /\ returned.val < 0
  /\ ~interrupted
  /\ returned.count = 0
  /\ events = <<>>

\* C10: num_events is the number of containers linked in the queue, and is
\* never negative.
C10_CountIsLength ==
  /\ num_events = Len(events)
  /\ num_events >= 0

\* C11: the events android_next_event has returned so far are, in order, the
\* first of the events in the order android_write_event linked them.
C11_RemovalOrderIsInsertionOrder ==
  /\ Len(delivered) <= Len(inserted)
  /\ \A i \in DOMAIN delivered : delivered[i] = inserted[i]

\* C12: a producer that found the queue full leaves its wait on write_var
\* only in a step in which android_next_event returns an event, and links
\* nothing while it waits; once woken it does link its event, and num_events,
\* which android_pending reports, is then the number of events linked, one
\* more than before.
C12_BlockedWriterWaitsForRead ==
  /\ [][\A p \in Producers :
          /\ pc[p] = "w_waiting"
               => \/ pc'[p] = "w_waiting" /\ OfProducer(inserted', p)
                                              = OfProducer(inserted, p)
                  \/ /\ pc'[p] = "w_woken"
                     /\ Len(delivered') = Len(delivered) + 1
                     /\ inserted' = inserted
          /\ (pc[p] = "w_woken" /\ pc'[p] = "idle")
               => /\ inserted' = Append(inserted, <<p, written[p]>>)
                  /\ num_events' = Len(events')]_vars
  /\ \A p \in Producers : (pc[p] = "w_woken") ~> (pc[p] = "idle")

\* C13: the Emacs thread never waits in sem_wait for a semaphore that is 0,
\* holding event_queue.mutex, while the select thread waits for that mutex
\* and so cannot post the semaphore.
C13_NoSemaphoreMutexDeadlock ==
  ~ /\ pc[Main] = "sel_semwait"
    /\ mutex = Main
    /\ android_pselect_sem = 0
    /\ pc[Sel] = "p_lockq"

\* C14: when android_select reads android_pselect_rc after sem_wait, the
\* select thread has taken the SIGUSR2 of this call, its pselect has
\* returned and it has stored that result, once since the SIGUSR2 was sent;
\* the value is the one pselect returned last, also when an event woke the
\* Emacs thread.
C14_ResultStoredBeforeRead ==
  pc[Main] = "sel_fuse" =>
    /\ wait_current
    /\ res_current
    /\ stored = 1
    /\ android_pselect_rc = rc
    /\ pc[Sel] \in {"p_lockq", "sigwait"}

\* An event woke the Emacs thread while pselect was in flight; pselect was
\* interrupted, its result stored and the semaphore taken.
C14_Witness ==
  /\ pc[Main] = "sel_fuse"
  /\ woken_by = "event"
  /\ interrupted
  /\ stored = 1
  /\ android_pselect_rc = Eintr

\* C15: once the select thread is at sem_post for the SIGUSR2 of the
\* android_select call in progress, that call gets past sem_wait; and the
\* delivery of SIGUSR1 neither moves the Emacs thread nor changes the
\* semaphore.
C15_JoinCompletes ==
  /\ (pc[Sel] = "p_post" /\ wait_current) ~> (pc[Main] = "sel_fuse")
  /\ [][(sigusr1 /\ ~sigusr1')
          => /\ pc'[Main] = pc[Main]
             /\ android_pselect_sem' = android_pselect_sem
             /\ mutex' = mutex]_vars

\* The Emacs thread is past sem_wait while the SIGUSR1 it sent, after pselect
\* had returned by itself, is still pending.
C15_Witness ==
  /\ pc[Main] = "sel_fuse"
  /\ sigusr1
  /\ wait_current
  /\ stored = 1
  /\ ~interrupted

\* C16: once the pselect started for an android_select call has returned,
\* the call returns; the select thread never signals read_var while the
\* Emacs thread is between the check of num_events and its wait on read_var
\* (nor later in the call, while it holds the mutex), and the signal wakes
\* the Emacs thread if it waits.
C16_CompletionNotLost ==
  /\ (pc[Sel] = "p_store" /\ res_current) ~> SelectReturned
  /\ [][(pc[Sel] = "p_lockq" /\ pc'[Sel] = "sigwait")
          => /\ pc[Main] \notin {"sel_arm", "sel_kill2", "sel_condwait",
                                 "sel_kill1", "sel_semwait", "sel_fuse"}
             /\ pc[Main] = "sel_waiting" => pc'[Main] = "sel_woken"]_vars

\* pselect returned by itself with no event in the queue, and the select
\* thread's signal has woken the Emacs thread.
C16_Witness ==
  /\ pc[Main] = "sel_kill1"
  /\ woken_by = "select"
  /\ wait_current
  /\ res_current
  /\ ~interrupted
  /\ android_pselect_completed
  /\ num_events = 0
  /\ inserted = <<>>

\* C17: a SIGUSR1 sent after the pselect of its android_select call has
\* returned is never pending while a pselect is in flight, and the step that
\* delivers it changes neither rc nor android_pselect_rc, makes no pselect
\* return, and neither stops the select thread nor ends the process.
C17_LateUsr1Harmless ==
  [][/\ (sigusr1' /\ usr1_late') => pc'[Sel] # "pselect"
     /\ (sigusr1 /\ usr1_late /\ ~sigusr1')
          => /\ pc[Sel] # "pselect"
             /\ rc' = rc
             /\ android_pselect_rc' = android_pselect_rc
             /\ interrupted' = interrupted
             /\ res_current' = res_current
             /\ android_pselect_sem' = android_pselect_sem
             /\ aborted' = aborted
             /\ pc'[Sel] \in {pc[Sel], "p_lock"}]_vars

\* The SIGUSR1 of a call whose pselect had returned by itself is still
\* pending when the next call has sent SIGUSR2 and waits on read_var.
C17_Witness ==
  /\ sigusr1
  /\ usr1_late
  /\ sigusr2
  /\ pc[Sel] = "sigwait"
  /\ pc[Main] = "sel_waiting"

\* C18: whatever pselect returned, the select thread stores that value in
\* android_pselect_rc, posts the semaphore once, and then signals read_var
\* and is back at sigwait, where the SIGUSR2 of a later android_select call
\* finds it.
C18_ProxyFinishesEveryCycle ==
  /\ [][/\ (pc[Sel] = "p_store" /\ pc'[Sel] # "p_store")
             => (android_pselect_rc' = rc /\ pc'[Sel] = "p_post")
        /\ (pc[Sel] = "p_post" /\ pc'[Sel] # "p_post")
             => /\ android_pselect_sem' = android_pselect_sem + 1
                /\ pc'[Sel] = "p_lockq"
        /\ android_pselect_sem' > android_pselect_sem => pc[Sel] = "p_post"
        /\ (pc[Sel] = "p_lockq" /\ pc'[Sel] # "p_lockq")
             => (android_pselect_completed' /\ pc'[Sel] = "sigwait")]_vars
  /\ (pc[Sel] = "p_store") ~> (pc[Sel] = "sigwait")

\* C19: an android_write_event call that returns without having linked its
\* event, because malloc failed, changes neither num_events nor the list,
\* leaves the mutex with its owner and wakes no thread; and such a call can
\* be made and return while another thread holds the mutex.
C19_AllocationFailureDrops ==
  /\ [][\A p \in Producers :
          (written'[p] = written[p] + 1 /\ pc'[p] = "idle"
             /\ inserted' = inserted)
            => /\ events' = events
               /\ num_events' = num_events
               /\ mutex' = mutex
               /\ pc' = pc
               /\ delivered' = delivered
               /\ android_pselect_sem' = android_pselect_sem
               /\ aborted' = aborted]_vars
  /\ [](\A p \in Producers :
          (mutex = Main /\ pc[p] = "idle" /\ TotalWritten < MaxEvents)
            => ENABLED (/\ Next
                        /\ written'[p] = written[p] + 1
                        /\ pc'[p] = "idle"
                        /\ inserted' = inserted))

\* ui1 has called android_write_event once and nothing was ever linked,
\* while the Emacs thread holds the mutex in android_select.
C19_Witness ==
  /\ written["ui1"] = 1
  /\ written["ui2"] = 0
  /\ pc["ui1"] = "idle"
  /\ inserted = <<>>
  /\ num_events = 0
  /\ mutex = Main

\* C20: when a step of android_init_events has failed, the process is ended
\* before any thread does anything: no android_write_event, android_select,
\* android_next_event or android_pending call is made and the select thread
\* does not run.
C20_InitFailureIsFatal ==
  init_failed # None =>
    /\ pc = [t \in Threads |-> IF t = Sel THEN "sigwait" ELSE "idle"]
    /\ TotalWritten = 0
    /\ inserted = <<>>
    /\ returned = NoReturn
    /\ mutex = None
    /\ ~sigusr2

\* C21: an android_pending call made by any thread returns, whatever the
\* Emacs thread and the select thread are doing.
C21_PendingReturns ==
  \A p \in Producers : (pc[p] = "pend_lock") ~> (pc[p] = "idle")

\* C22: an android_pending call returns num_events and changes neither the
\* list, num_events, the pselect arguments, android_pselect_rc,
\* android_pselect_completed nor the semaphore; and num_events changes only
\* in a step in which an event is linked or taken, so that calls with no
\* such step between them return the same value.
C22_PendingChangesNothing ==
  [][/\ (pc[Main] = "idle" /\ pc'[Main] = "done"
           /\ returned'.fn = "android_pending")
          => /\ returned'.val = num_events
             /\ UNCHANGED <<queueVars, selectVars, signalVars, mutex,
                            written, aborted>>
             /\ \A t \in Threads \ {Main} : pc'[t] = pc[t]
     /\ num_events' # num_events
          => \/ inserted' # inserted
             \/ delivered' # delivered
             \/ aborted']_vars

\* android_pending has returned 2 with two events in the queue, during an
\* android_select cycle the select thread has not finished.
C22_Witness ==
  /\ pc[Main] = "done"
  /\ returned.fn = "android_pending"
  /\ returned.val = 2
  /\ Len(events) = 2
  /\ pc[Sel] = "p_lockq"

\* C23: SIGUSR1 is delivered to the select thread only while pselect is in
\* flight; sent at any other time it stays pending until then.
C23_Usr1OnlyDuringPselect ==
  [][(sigusr1 /\ ~sigusr1') => pc[Sel] = "pselect"]_vars

\* C24: when the select thread's signal has woken the Emacs thread from its
\* wait on read_var in android_select, the select thread has taken the
\* SIGUSR2 of this call and the pselect started for it has returned; and
\* when an event has woken it, an event was linked.
C24_NoStaleCompletionWakes ==
  /\ (pc[Main] = "sel_woken" /\ woken_by = "select")
       => (wait_current /\ res_current)
  /\ (pc[Main] = "sel_woken" /\ woken_by = "event") => inserted # <<>>

\* C25: android_next_event unlinks a container only from a list that has
\* one, and a call that found num_events at 0 leaves its wait on read_var
\* only in a step that links an event.
C25_NeverRemovesFromEmpty ==
  [][/\ (num_events' < num_events \/ Len(delivered') > Len(delivered))
          => (events # <<>> /\ Len(events') = Len(events) - 1)
     /\ (pc[Main] = "next_waiting" /\ pc'[Main] # "next_waiting")
          => Len(inserted') = Len(inserted) + 1]_vars

\* C26: the semaphore is 0 or 1, and at most one SIGUSR2 is in progress:
\* when android_select sends SIGUSR2 the semaphore is 0, no SIGUSR2 is
\* pending and the select thread is past the pselect and the sem_post of
\* the call before; and the select thread enters pselect once for a
\* SIGUSR2, with nothing returned or stored for it yet.
C26_OneWaitOutstanding ==
  /\ [](android_pselect_sem \in {0, 1})
  /\ [](pc[Main] = "sel_kill2"
          => /\ android_pselect_sem = 0
             /\ ~sigusr2
             /\ pc[Sel] \in {"p_lockq", "sigwait"})
  /\ [](sigusr2 => pc[Sel] \in {"p_lockq", "sigwait"})
  /\ [][(pc[Sel] = "p_lock" /\ pc'[Sel] = "pselect")
          => (wait_current /\ ~res_current /\ stored = 0)]_vars

\* A second android_select call is about to send SIGUSR2, with the select
\* thread still at the end of the cycle before.
C26_Witness ==
  /\ pc[Main] = "sel_kill2"
  /\ pc[Sel] = "p_lockq"
  /\ stored = 1
  /\ android_pselect_sem = 0

\* C27: while the select thread is in pselect, the arguments it passed are
\* the ones the android_select call in progress stored; android_select
\* stores its arguments only while the select thread is neither about to
\* read them nor using them, and a pselect never begins with arguments
\* other than those of the call that sent its SIGUSR2.
C27_PselectUsesCallersArguments ==
  /\ [](pc[Sel] = "pselect"
          => /\ call_args # None
             /\ call_args = android_pselect_args
             /\ call_args = sel_args)
  /\ [][android_pselect_args' # android_pselect_args
          => pc[Sel] \notin {"p_lock", "pselect", "p_store"}]_vars
  /\ [][(pc[Sel] = "p_lock" /\ pc'[Sel] = "pselect")
          => (call_args' = sel_args /\ sel_args # None)]_vars

\* The pselect of a later call is in flight with that call's arguments:
\* an earlier cycle has stored its result.
C27_Witness ==
  /\ pc[Sel] = "pselect"
  /\ android_pselect_rc = 1
  /\ call_args = sel_args
  /\ call_args # None

\* C28: when an android_select call that sent SIGUSR2 has returned, the
\* select thread is not in pselect and holds no argument of the caller,
\* and this stays so until the next SIGUSR2: outside the span of a call
\* from pthread_kill (SIGUSR2) to sem_wait the select thread neither is
\* about to call pselect nor is inside it, and no SIGUSR2 is pending.
C28_ArgumentsUntouchedAfterReturn ==
  /\ (SelectReturned /\ returned.path = "arm")
       => /\ pc[Sel] \in {"p_lockq", "sigwait"}
          /\ call_args = None
          /\ ~sigusr2
  /\ (pc[Sel] \in {"p_lock", "pselect"} \/ call_args # None \/ sigusr2)
       => /\ pc[Main] \in {"sel_condwait", "sel_waiting", "sel_woken",
                            "sel_kill1", "sel_semwait"}
          /\ sel_args # None

\* android_select has returned through sem_wait after a pselect that
\* returned -1, and the select thread has not yet locked the queue.
C28_Witness ==
  /\ SelectReturned
  /\ returned.path = "arm"
  /\ android_pselect_rc = Eintr
  /\ pc[Sel] = "p_lockq"

\* C29 as stated: the select lock is never held while pselect is in
\* flight.
C29_SelectLockFreeDuringPselect ==
  pc[Sel] = "pselect" => select_mutex # Sel

\* C29 amended: the select thread holds the select lock exactly from
\* before it reads the arguments until the result of pselect is stored,
\* pselect included, and has released it when it posts the semaphore;
\* android_select never finds the lock held when it stores arguments.
C29_SelectLockHeldAcrossPselect ==
  /\ (select_mutex = Sel) <=> (pc[Sel] \in {"pselect", "p_store"})
  /\ pc[Sel] \in {"p_post", "p_lockq", "sigwait", "p_lock"}
       => select_mutex = None
  /\ pc[Main] = "sel_arm" => select_mutex = None

\* pselect is in flight for the call in progress and the select thread
\* holds the select lock.
C29_Witness ==
  /\ pc[Sel] = "pselect"
  /\ select_mutex = Sel
  /\ pc[Main] = "sel_waiting"

\* C30: no thread holds the select lock while it takes the queue mutex or
\* waits on or signals write_var or read_var.  Only the select thread
\* holds the select lock from one step to the next, and never together
\* with the queue mutex; it locks the queue and signals read_var with
\* the select lock released; android_select takes the select lock inside
\* the queue mutex and has released it when it waits; the steps of a
\* producer and of android_next_event leave the select lock alone; and
\* android_select never waits for the select lock, holding the queue
\* mutex, while the select thread waits for the queue mutex.
C30_NoLockOrderCycle ==
  /\ [](select_mutex \in {None, Sel})
  /\ [](select_mutex = Sel => mutex # Sel /\ pc[Sel] # "p_lockq")
  /\ [](pc[Main] \in {"sel_condwait", "sel_waiting", "next_waiting"}
          => select_mutex # Main)
  /\ [](~(pc[Main] = "sel_arm" /\ select_mutex = Sel))
  /\ [][(pc[Main] = "sel_arm" /\ pc'[Main] # "sel_arm")
          => (mutex = Main /\ select_mutex = None /\ select_mutex' = None)]_vars
  /\ [][(pc[Sel] = "p_lockq" /\ pc'[Sel] # "p_lockq")
          => (select_mutex = None /\ select_mutex' = None)]_vars
  /\ [][select_mutex' # select_mutex
          => (pc'[Sel] # pc[Sel] /\ \A p \in Producers : pc'[p] = pc[p])]_vars

\* android_select, holding the queue mutex, is about to take the select
\* lock while the select thread is about to take the queue mutex.
C30_Witness ==
  /\ pc[Main] = "sel_arm"
  /\ mutex = Main
  /\ pc[Sel] = "p_lockq"
  /\ select_mutex = None

\* C31: every step that changes num_events, the list of events or
\* android_pselect_completed, and every step in which android_select or
\* android_pending reads num_events for its result, is taken by a thread
\* that holds the queue mutex: the mutex is free and the step locks it,
\* or the Emacs thread has held it since pthread_cond_wait returned and
\* the step is its own.
C31_QueueStateUnderMutex ==
  [][(\/ num_events' # num_events
      \/ events' # events
      \/ android_pselect_completed' # android_pselect_completed
      \/ (returned' # returned /\ returned' # NoReturn))
       => \/ mutex = None
          \/ /\ mutex = Main
             /\ pc[Main] = "sel_fuse"
             /\ pc'[Main] = "done"
             /\ \A t \in Threads \ {Main} : pc'[t] = pc[t]]_vars

\* The select thread is about to lock the queue mutex and set
\* android_pselect_completed while the Emacs thread holds the mutex and
\* is about to read num_events for its result.
C31_Witness ==
  /\ pc[Sel] = "p_lockq"
  /\ ~android_pselect_completed
  /\ pc[Main] = "sel_fuse"
  /\ mutex = Main

\* C32: a producer is never kept from the queue for the duration of a
\* pselect: the Emacs thread never holds the queue mutex in sem_wait
\* while the select thread is in pselect with no SIGUSR1 on its way to
\* interrupt it, so that the mutex stays locked until descriptors become
\* ready or the timeout runs out.
C32_WriterNotHeldForPselect ==
  ~(/\ pc[Main] = "sel_semwait"
    /\ mutex = Main
    /\ android_pselect_sem = 0
    /\ pc[Sel] = "pselect"
    /\ ~sigusr1
    /\ \E p \in Producers : pc[p] = "idle" /\ ~QueueFull(num_events))

\* The producers whose pthread_cond_wait on write_var has been ended by a
\* signal and that have not linked their container yet.
C33_Woken == {p \in Producers : pc[p] = "w_woken"}

\* C33: no wake-up is lost.  A step that links an event wakes the Emacs
\* thread if it waits on read_var, in android_next_event or in
\* android_select, and the step locks the queue mutex; a step that
\* takes an event wakes one producer if any waits on write_var, and the
\* step locks the queue mutex; so, while the process runs, producers wait
\* only while the events counted and the producers already woken fill the
\* queue.
C33_NoWakeupLost ==
  /\ []((~aborted /\ WriteWaiters(pc) # {})
          => num_events + Cardinality(C33_Woken) >= QueueLimit)
  /\ [][Len(inserted') > Len(inserted)
          => /\ mutex = None
             /\ ReadWaiting(pc) => pc'[Main] \in {"sel_woken", "next_woken"}]_vars
  /\ [][Len(delivered') > Len(delivered)
          => /\ mutex = None
             /\ WriteWaiters(pc) # {}
                  => \E p \in WriteWaiters(pc) : pc'[p] = "w_woken"]_vars

\* With both producers waiting on the full queue, an event was taken and
\* one of them woken; the other still waits.
C33_Witness ==
  /\ pc["ui1"] = "w_woken"
  /\ pc["ui2"] = "w_waiting"
  /\ Len(delivered) > 0

\* C34: the select thread and the producers work only on objects that
\* android_init_events has set up: the select thread runs, past its first
\* sigwait, and a producer is inside android_write_event or has linked an
\* event, only when the two mutexes, the two condition variables, the
\* semaphore and the SIGUSR1 handler were all set up before
\* pthread_create.
C34_ThreadsRunOnInitialisedState ==
  /\ (pc[Sel] # "sigwait" \/ stored > 0) => init_failed = None
  /\ \A p \in Producers :
       (pc[p] # "idle" \/ written[p] > 0) => init_failed = None

\* C35: however many times and from however many threads setEmacsParams
\* is called, at most one call goes on to initialise and to run
\* android_init_events; every other call throws and initialises nothing.
C35_InitialisedOnce ==
  /\ [](init_runs + Cardinality({t \in JavaThreads : params_pc[t] = "init"})
          <= 1)
  /\ [][\A t \in JavaThreads :
         (params_pc[t] = "throw" /\ params_pc'[t] = "idle")
           => init_runs' = init_runs]_vars

\* C36: android_alloc_id returns 0 only when no identifier is unused: a
\* call made while an entry of some non-zero identifier was free did not
\* return 0.
C36_ZeroOnlyWhenFull ==
  handle_ret = 0 => ~free_at_alloc

\* C37: an identifier android_alloc_id returns, other than 0, lies inside
\* android_handles, and nothing is ever stored beyond the table.
C37_IdentifierInsideTable ==
  /\ handle_ret \in {-1, 0} \cup (1 .. MAX_HANDLE - 1)
  /\ ~handle_overrun

\* C38: the entry of a descriptor is valid exactly while the descriptor
\* is open as an asset and android_close has not been called on it; the
\* assertion of android_open never fails; and android_fstat answers from
\* the table only for a descriptor that is open as an asset.
C38_ValidWhileOpenAsset ==
  /\ \A fd \in 0 .. ANDROID_MAX_ASSET_FD - 1 :
       android_table[fd] <=> (fd_open[fd] = "asset" /\ closing # fd)
  /\ ~assert_failed
  /\ fstat_res.from = "table" => fstat_res.asset

\* Descriptor 0 was an asset, for which android_fstat answered from the
\* table; it has been closed and is now open again as a plain file.
C38_Witness ==
  /\ fstat_res = [fd |-> 0, from |-> "table", asset |-> TRUE]
  /\ fd_open[0] = "file"
  /\ ~android_table[0]

====
